---- MODULE Spec2Model ----
(***************************************************************************)
(* The zoom lifecycle of the Base component (src/source/Base.tsx).         *)
(*                                                                         *)
(* One step of the model is one task of the UI event loop: an event        *)
(* handler, a timer callback, a promise reaction, or a change of props by  *)
(* the owner, each followed by the re-render and the effects it causes.    *)
(* The owner of isZoomed is the environment: it may toggle isZoomed at any *)
(* time and it answers every onZoomChange call by accepting or ignoring    *)
(* the proposed value within the handler's own task.                       *)
(***************************************************************************)
EXTENDS Integers, Sequences, FiniteSets, TLC

\* Bounds of the model (not program constants).
MaxPending == 2     \* transitionend listeners registered plus timers queued
MaxForce == 2       \* largest value of the forced-refresh counter
MaxPropChanges == 1 \* changes of onZoomChange or scrollableEl by the owner
MaxDecodes == 1     \* replacement-asset decodes in flight
MaxCalls == 2       \* scroll-handler calls counted for one scroll-triggered close

VARIABLES
    \* the resolved target and the configuration (fixed for one behaviour)
    imgEl,              \* "none", "img" or "svg": what findImgEl resolved
    hasZoomImg,         \* !!zoomImgSrc
    \* the target's source as of the last render: "A" or "B", "none" without one
    imgSrc,
    \* props
    isZoomed,
    scrollableEl,       \* "window" or "el"
    onZoomChange,       \* identity (version) of the onZoomChange prop
    \* React state and refs
    mounted,
    modalState,
    isZoomImgLoaded,
    forceUpdateVal,
    loadedImgEl,        \* the source of the decoded natural asset, "none" before
    prevIsZoomed,       \* usePrevious(isZoomed): the value of the last render
    \* the environment: DOM, timers, promises
    dialogOpen,         \* the <dialog> is shown
    transitionRunning,  \* a CSS transition of the modal image is in progress
    tListeners,         \* once-listeners for transitionend on refModalImg
    timeouts,           \* setTimeout(..., 0) callbacks queued, oldest first
    attached,           \* scroll / resize / click listeners attached
    naturalPending,     \* sources whose natural-asset decode is in flight
    zoomDecoding,       \* number of replacement-asset decodes in flight
    closeEventPending,  \* the dialog's close event is queued
    \* history variables (observations, read by no action's guard)
    lastCalls,          \* onZoomChange arguments passed during the last step
    closedFrom,         \* modalState in which unzoom() ran, while UNLOADING
    reported,           \* onZoomChange(false) was called since LOADED was entered
    scrollCalls,        \* onZoomChange(false) calls by scroll handlers in one scroll-triggered close
    propChanges         \* changes of onZoomChange or scrollableEl so far

config == <<imgEl, hasZoomImg>>
props == <<isZoomed, scrollableEl, onZoomChange>>
vars == <<imgEl, hasZoomImg, imgSrc, isZoomed, scrollableEl, onZoomChange, mounted,
          modalState, isZoomImgLoaded, forceUpdateVal, loadedImgEl, prevIsZoomed,
          dialogOpen, transitionRunning, tListeners, timeouts, attached,
          naturalPending, zoomDecoding, closeEventPending,
          lastCalls, closedFrom, reported, scrollCalls,
          propChanges>>

ModalState == {"LOADED", "LOADING", "UNLOADED", "UNLOADING"}

----------------------------------------------------------------------------
\* Derived values of one render

\* refModalImg.current: the modal image element exists for img and svg targets
HasRef == imgEl \in {"img", "svg"}

\* getImgSrc(imgEl): only an img target has a source to decode
HasImgSrc == imgEl = "img"

\* The sources a target may have
Sources == {"A", "B"}

IsModalZoomed(z, ms) == z /\ ms \in {"LOADING", "LOADED"}

\* The geometry applied to the modal image: empty until the target exists and
\* its natural asset is known, else the expanded or the collapsed box.
StyleModalImg(z, ms, loaded) ==
    IF imgEl # "none" /\ (loaded # "none" \/ imgEl = "svg")
    THEN IF IsModalZoomed(z, ms) THEN "expanded" ELSE "collapsed"
    ELSE "empty"

StyleContent(ms) == IF ms = "UNLOADED" THEN "visible" ELSE "hidden"

\* faulty variant: the overlay stays visible while closing
DataOverlayStateWhileClosing(ms) == IF ms = "UNLOADED" THEN "hidden" ELSE "visible"

DataOverlayState(ms) == IF ms \in {"UNLOADED", "UNLOADING"} THEN "hidden" ELSE "visible"

\* faulty variant: the replacement attributes are applied as soon as it is ready
ZoomImgPropsWhenReady(loaded, ms) == loaded

\* {...isZoomImgLoaded && modalState === ModalState.LOADED ? zoomImg : {}}: the
\* replacement asset's attributes are spread over the modal image
ZoomImgProps(loaded, ms) == loaded /\ ms = "LOADED"

\* Listener records
ScrollL(el, v) == [target |-> el, type |-> "scroll", fn |-> v]
ResizeL == [target |-> "window", type |-> "resize", fn |-> 0]
ClickL(v) == [target |-> "img", type |-> "click", fn |-> v]

----------------------------------------------------------------------------
\* Event handlers, as what they do to the calls made and to the refresh counter

\* A handler starts from no call made and no forced refresh
H0 == [calls |-> <<>>, force |-> 0]

\* onZoomChange?.(true)
HandleOpen(h) == [h EXCEPT !.calls = Append(@, TRUE)]

\* onZoomChange?.(false)
HandleClose(h) == [h EXCEPT !.calls = Append(@, FALSE)]

\* Escape is intercepted (preventDefault, stopPropagation) and closes; any
\* other key is left alone
HandleDialogKeyDown(key, h) == IF key = "Escape" THEN HandleClose(h) ELSE h

\* faulty variant: the scroll handler only refreshes
HandleScrollNoClose(h) == [h EXCEPT !.force = @ + 1]

\* forceUpdate(n => n + 1); handleClose()
HandleScroll(h) == HandleClose([h EXCEPT !.force = @ + 1])

\* faulty variant: the resize handler closes as the scroll handler does
HandleResizeCloses(h) == HandleClose([h EXCEPT !.force = @ + 1])

\* forceUpdate(n => n + 1)
HandleResize(h) == [h EXCEPT !.force = @ + 1]

\* A click on the unzoom button runs the button's onClick and then, bubbling,
\* the dialog's onClick: both are handleClose
ClickUnzoomBtnHandlers(h) == HandleClose(HandleClose(h))

\* A click on the overlay (or anywhere else in the dialog) runs the dialog's onClick
ClickDialogHandlers(h) == HandleClose(h)

\* A click on the zoom button, or on the target, runs handleOpen
ClickOpenHandlers(h) == HandleOpen(h)

----------------------------------------------------------------------------
\* The effects of one render

\* faulty variant: the previous value is not consulted when unzooming
ToggleEffectNoPrev(prev, z) ==
    IF ~prev /\ z THEN "zoom" ELSE IF ~z THEN "unzoom" ELSE "none"

\* Show modal when zoomed; hide modal when unzoomed
ToggleEffect(prev, z) ==
    IF ~prev /\ z THEN "zoom" ELSE IF prev /\ ~z THEN "unzoom" ELSE "none"

\* zoom(): refModalImg.current?.addEventListener?.('transitionend', ..., {once})
ZoomListener(tl, el, v) ==
    IF HasRef THEN Append(tl, [kind |-> "zoom", el |-> el, hs |-> v]) ELSE tl

\* faulty variant: unzoom registers no completion callback
UnzoomListenerNone(tl, el, v) == tl

\* unzoom(): refModalImg.current?.addEventListener?.('transitionend', ..., {once})
UnzoomListener(tl, el, v) ==
    IF HasRef THEN Append(tl, [kind |-> "unzoom", el |-> el, hs |-> v]) ELSE tl

\* loadZoomImg(): one decode is started when a replacement source is configured
LoadZoomImg(n) == IF hasZoomImg THEN n + 1 ELSE n

\* The browser starts a transition of the modal image when its style changes
\* while the dialog is shown; closing the dialog ends any transition.
TransitionAfter(old, new, open, running) ==
    IF ~open \/ ~HasRef THEN FALSE
    ELSE IF old # new THEN TRUE ELSE running

\* Cleanup of the effects whose dependencies changed with the onZoomChange
\* identity: the lingering-handlers effect removes the old handleScroll and
\* handleResize from the window, the click effect moves the target's click
\* listener to the new handleOpen.
PropEffects(att, oldV, newV) ==
    IF oldV = newV THEN att
    ELSE ((att \ {ResizeL, ScrollL("window", oldV), ClickL(oldV)})
            \cup (IF imgEl # "none" THEN {ClickL(newV)} ELSE {}))

\* A render with props (z, el, v), and the effects that follow it
Render(z, el, v) ==
    LET eff == ToggleEffect(prevIsZoomed, z)
        ms1 == IF eff = "zoom" THEN "LOADING"
               ELSE IF eff = "unzoom" THEN "UNLOADING" ELSE modalState
        open1 == IF eff = "zoom" THEN TRUE ELSE dialogOpen
    IN  /\ eff # "none" /\ HasRef => Len(tListeners) + Len(timeouts) < MaxPending
        /\ eff = "zoom" /\ hasZoomImg => zoomDecoding < MaxDecodes
        /\ isZoomed' = z
        /\ scrollableEl' = el
        /\ onZoomChange' = v
        /\ prevIsZoomed' = z
        /\ modalState' = ms1
        /\ dialogOpen' = open1
        /\ tListeners' = IF eff = "zoom" THEN ZoomListener(tListeners, el, v)
                         ELSE IF eff = "unzoom" THEN UnzoomListener(tListeners, el, v)
                         ELSE tListeners
        /\ zoomDecoding' = IF eff = "zoom" THEN LoadZoomImg(zoomDecoding) ELSE zoomDecoding
        /\ transitionRunning' =
              TransitionAfter(StyleModalImg(isZoomed, modalState, loadedImgEl),
                              StyleModalImg(z, ms1, loadedImgEl), open1,
                              transitionRunning)
        /\ attached' = PropEffects(attached, onZoomChange, v)
        /\ closedFrom' = IF eff = "unzoom" THEN modalState
                         ELSE IF ms1 = "UNLOADING" THEN closedFrom ELSE "NONE"

\* Number of onZoomChange(false) calls in a handler's result
NFalse(calls) == Cardinality({i \in 1..Len(calls) : calls[i] = FALSE})

Min(a, b) == IF a < b THEN a ELSE b

\* A UI event whose handlers produced h; the owner accepts the last proposed
\* value or ignores the calls. Events after teardown are left out (timers are
\* not).
Event(isScroll, h, accept) ==
    LET z == IF accept /\ h.calls # <<>> THEN h.calls[Len(h.calls)] ELSE isZoomed
    IN  /\ mounted
        /\ forceUpdateVal + h.force <= MaxForce
        /\ Render(z, scrollableEl, onZoomChange)
        /\ forceUpdateVal' = forceUpdateVal + h.force
        /\ lastCalls' = h.calls
        /\ reported' = (modalState' \in {"LOADED", "UNLOADING"}
                        /\ (reported \/ NFalse(h.calls) > 0))
        /\ scrollCalls' =
              IF scrollCalls > 0
                 \/ (isScroll /\ modalState = "LOADED" /\ modalState' = "UNLOADING")
              THEN Min(MaxCalls, scrollCalls + (IF isScroll THEN NFalse(h.calls) ELSE 0))
              ELSE 0
        /\ UNCHANGED <<config, imgSrc, mounted, isZoomImgLoaded, loadedImgEl, timeouts,
                       naturalPending, propChanges>>

\* The history variables after a step that runs no event handler
Quiet ==
    /\ lastCalls' = <<>>
    /\ reported' = (modalState' \in {"LOADED", "UNLOADING"} /\ reported)
    /\ scrollCalls' = scrollCalls

----------------------------------------------------------------------------
\* The state after the component has mounted with isZoomed = false and no
\* replacement asset configured

Init ==
    /\ imgEl \in {"none", "img", "svg"}
    /\ hasZoomImg = FALSE
    /\ scrollableEl \in {"window", "el"}
    /\ isZoomed = FALSE
    /\ onZoomChange = 1
    /\ mounted = TRUE
    /\ modalState = "UNLOADED"
    /\ isZoomImgLoaded = FALSE
    /\ forceUpdateVal = 0
    /\ loadedImgEl = "none"
    /\ prevIsZoomed = FALSE
    /\ dialogOpen = FALSE
    /\ transitionRunning = FALSE
    /\ tListeners = <<>>
    /\ timeouts = <<>>
    /\ attached = IF imgEl # "none" THEN {ClickL(1)} ELSE {}
    /\ imgSrc = (IF HasImgSrc THEN "A" ELSE "none")
    /\ naturalPending = (IF HasImgSrc THEN {"A"} ELSE {})
    /\ zoomDecoding = 0
    /\ closeEventPending = FALSE
    /\ lastCalls = <<>>
    /\ closedFrom = "NONE"
    /\ reported = FALSE
    /\ scrollCalls = 0
    /\ propChanges = 0

----------------------------------------------------------------------------
\* The owner changes a prop

\* isZoomed is toggled from outside
OwnerToggle ==
    /\ mounted
    /\ Render(~isZoomed, scrollableEl, onZoomChange)
    /\ UNCHANGED <<config, imgSrc, mounted, isZoomImgLoaded, forceUpdateVal, loadedImgEl,
                   timeouts, naturalPending, closeEventPending>>
    /\ Quiet
    /\ UNCHANGED propChanges

\* a new onZoomChange function is passed: handleOpen, handleClose and
\* handleScroll get new identities
ChangeOnZoomChange ==
    /\ mounted
    /\ propChanges < MaxPropChanges
    /\ propChanges' = propChanges + 1
    /\ Render(isZoomed, scrollableEl, onZoomChange + 1)
    /\ UNCHANGED <<config, imgSrc, mounted, isZoomImgLoaded, forceUpdateVal, loadedImgEl,
                   timeouts, naturalPending, closeEventPending>>
    /\ Quiet

\* another scrollableEl is passed
ChangeScrollableEl ==
    /\ mounted
    /\ propChanges < MaxPropChanges
    /\ propChanges' = propChanges + 1
    /\ \E el \in {"window", "el"} \ {scrollableEl} :
          Render(isZoomed, el, onZoomChange)
    /\ UNCHANGED <<config, imgSrc, mounted, isZoomImgLoaded, forceUpdateVal, loadedImgEl,
                   timeouts, naturalPending, closeEventPending>>
    /\ Quiet

----------------------------------------------------------------------------
\* UI events

\* the zoom button of the ghost is clicked (the page is inert while the dialog
\* is shown)
ClickZoomBtn ==
    /\ ~dialogOpen
    /\ \E accept \in BOOLEAN : Event(FALSE, ClickOpenHandlers(H0), accept)
    /\ UNCHANGED closeEventPending

\* the target is clicked: the click listener the click effect attached runs
ClickImg ==
    /\ ~dialogOpen
    /\ StyleContent(modalState) = "visible"
    /\ ClickL(onZoomChange) \in attached
    /\ \E accept \in BOOLEAN : Event(FALSE, ClickOpenHandlers(H0), accept)
    /\ UNCHANGED closeEventPending

ClickUnzoomBtn ==
    /\ dialogOpen
    /\ \E accept \in BOOLEAN : Event(FALSE, ClickUnzoomBtnHandlers(H0), accept)
    /\ UNCHANGED closeEventPending

ClickOverlay ==
    /\ dialogOpen
    /\ \E accept \in BOOLEAN : Event(FALSE, ClickDialogHandlers(H0), accept)
    /\ UNCHANGED closeEventPending

\* a key is pressed in the dialog
KeyDown(key) ==
    /\ dialogOpen
    /\ \E accept \in BOOLEAN : Event(FALSE, HandleDialogKeyDown(key, H0), accept)
    /\ UNCHANGED closeEventPending

\* the dialog's close event, queued by dialog.close(), runs onClose
DialogCloseEvent ==
    /\ closeEventPending
    /\ \E accept \in BOOLEAN : Event(FALSE, HandleClose(H0), accept)
    /\ closeEventPending' = FALSE

RECURSIVE ScrollHandlers(_, _)
\* every scroll listener attached to the scrolled element runs
ScrollHandlers(k, h) == IF k = 0 THEN h ELSE ScrollHandlers(k - 1, HandleScroll(h))

Scroll ==
    \E el \in {"window", "el"} :
        LET ls == {l \in attached : l.type = "scroll" /\ l.target = el}
        IN  /\ ls # {}
            /\ \E accept \in BOOLEAN :
                  Event(TRUE, ScrollHandlers(Cardinality(ls), H0), accept)
            /\ UNCHANGED closeEventPending

Resize ==
    /\ ResizeL \in attached
    /\ \E accept \in BOOLEAN : Event(FALSE, HandleResize(H0), accept)
    /\ UNCHANGED closeEventPending

----------------------------------------------------------------------------
\* Transition end, timers, decodes, teardown

\* The transitionend event of the modal image: every once-listener registered
\* runs, in order of registration, and defers its work with setTimeout(..., 0)
TransitionEnd ==
    /\ mounted
    /\ transitionRunning
    /\ timeouts' = timeouts \o tListeners
    /\ tListeners' = <<>>
    /\ transitionRunning' = FALSE
    /\ UNCHANGED <<config, imgSrc, props, mounted, modalState, isZoomImgLoaded, forceUpdateVal,
                   loadedImgEl, prevIsZoomed, dialogOpen, attached, naturalPending,
                   zoomDecoding, closeEventPending, closedFrom>>
    /\ Quiet
    /\ UNCHANGED propChanges

\* faulty variant: the deferred callback of zoom() does nothing once isZoomed
\* went back to false
TimeoutZoomCancelled(t) ==
    /\ attached' = IF isZoomed THEN attached \cup {ScrollL(t.el, t.hs), ResizeL}
                   ELSE attached
    /\ modalState' = IF mounted /\ isZoomed THEN "LOADED" ELSE modalState
    /\ transitionRunning' =
          TransitionAfter(StyleModalImg(isZoomed, modalState, loadedImgEl),
                          StyleModalImg(isZoomed, modalState', loadedImgEl),
                          dialogOpen, transitionRunning)
    /\ UNCHANGED <<forceUpdateVal, dialogOpen, closeEventPending>>

\* The deferred callback zoom() registered: the listeners it captured are
\* attached; the state is set only while the component is mounted
TimeoutZoom(t) ==
    /\ attached' = attached \cup {ScrollL(t.el, t.hs), ResizeL}
    /\ modalState' = IF mounted THEN "LOADED" ELSE modalState
    /\ transitionRunning' =
          TransitionAfter(StyleModalImg(isZoomed, modalState, loadedImgEl),
                          StyleModalImg(isZoomed, modalState', loadedImgEl),
                          dialogOpen, transitionRunning)
    /\ UNCHANGED <<forceUpdateVal, dialogOpen, closeEventPending>>

\* faulty variant: the deferred callback of unzoom() leaves the listeners
TimeoutUnzoomKeepsListeners(t) ==
    /\ attached' = attached
    /\ modalState' = IF mounted THEN "UNLOADED" ELSE modalState
    /\ forceUpdateVal' = IF mounted THEN 0 ELSE forceUpdateVal
    /\ dialogOpen' = FALSE
    /\ closeEventPending' = (closeEventPending \/ dialogOpen)
    /\ transitionRunning' = FALSE

\* The deferred callback unzoom() registered: the listeners it captured are
\* removed, the state and the refresh counter are reset, the dialog is closed
\* (which queues its close event when it was shown)
TimeoutUnzoom(t) ==
    /\ attached' = attached \ {ResizeL, ScrollL(t.el, t.hs)}
    /\ modalState' = IF mounted THEN "UNLOADED" ELSE modalState
    /\ forceUpdateVal' = IF mounted THEN 0 ELSE forceUpdateVal
    /\ dialogOpen' = FALSE
    /\ closeEventPending' = (closeEventPending \/ dialogOpen)
    /\ transitionRunning' = FALSE

Timeout ==
    /\ timeouts # <<>>
    /\ timeouts' = Tail(timeouts)
    /\ IF Head(timeouts).kind = "zoom"
       THEN TimeoutZoom(Head(timeouts))
       ELSE TimeoutUnzoom(Head(timeouts))
    /\ lastCalls' = <<>>
    /\ closedFrom' = IF modalState' = "UNLOADING" THEN closedFrom ELSE "NONE"
    /\ reported' = (modalState' = modalState /\ reported)
    /\ scrollCalls' = IF modalState' = "UNLOADED" THEN 0 ELSE scrollCalls
    /\ UNCHANGED <<config, imgSrc, props, mounted, isZoomImgLoaded, loadedImgEl, prevIsZoomed,
                   tListeners, naturalPending, zoomDecoding, propChanges>>

\* img.decode() of the natural asset resolves: setLoadedImgEl(img)
NaturalDecoded ==
    /\ mounted
    /\ \E src \in naturalPending :
          /\ naturalPending' = naturalPending \ {src}
          /\ loadedImgEl' = src
    /\ transitionRunning' =
          TransitionAfter(StyleModalImg(isZoomed, modalState, loadedImgEl),
                          StyleModalImg(isZoomed, modalState, loadedImgEl'),
                          dialogOpen, transitionRunning)
    /\ UNCHANGED <<config, imgSrc, props, mounted, modalState, isZoomImgLoaded, forceUpdateVal,
                   prevIsZoomed, dialogOpen, tListeners, timeouts, attached,
                   zoomDecoding, closeEventPending, closedFrom>>
    /\ Quiet
    /\ UNCHANGED propChanges

\* the target reports a load event: handleImgLoad starts another decode of
\* the source of the last render
ImgLoad ==
    /\ mounted
    /\ HasImgSrc
    /\ imgSrc \notin naturalPending
    /\ naturalPending' = naturalPending \cup {imgSrc}
    /\ UNCHANGED <<config, imgSrc, props, mounted, modalState, isZoomImgLoaded, forceUpdateVal,
                   loadedImgEl, prevIsZoomed, dialogOpen, transitionRunning, tListeners,
                   timeouts, attached, zoomDecoding, closeEventPending, closedFrom>>
    /\ Quiet
    /\ UNCHANGED propChanges

\* The target's source changes: the natural-image effect runs again for the
\* new source and starts its decode; a decode already in flight is not
\* cancelled, and loadedImgEl is left as it is
SrcChange ==
    /\ mounted
    /\ HasImgSrc
    /\ \E src \in Sources \ {imgSrc} :
          /\ imgSrc' = src
          /\ naturalPending' = naturalPending \cup {src}
    /\ UNCHANGED <<config, props, mounted, modalState, isZoomImgLoaded, forceUpdateVal,
                   loadedImgEl, prevIsZoomed, dialogOpen, transitionRunning, tListeners,
                   timeouts, attached, zoomDecoding, closeEventPending, closedFrom>>
    /\ Quiet
    /\ UNCHANGED propChanges

\* img.decode() of the replacement asset resolves: setIsZoomImgLoaded(true)
ZoomDecoded ==
    /\ mounted
    /\ zoomDecoding > 0
    /\ zoomDecoding' = zoomDecoding - 1
    /\ isZoomImgLoaded' = TRUE
    /\ UNCHANGED <<config, imgSrc, props, mounted, modalState, forceUpdateVal, loadedImgEl,
                   prevIsZoomed, dialogOpen, transitionRunning, tListeners, timeouts,
                   attached, naturalPending, closeEventPending, closedFrom>>
    /\ Quiet
    /\ UNCHANGED propChanges

\* img.decode() of the replacement asset rejects: nothing handles it
ZoomDecodeFailed ==
    /\ mounted
    /\ zoomDecoding > 0
    /\ zoomDecoding' = zoomDecoding - 1
    /\ UNCHANGED <<config, imgSrc, props, mounted, modalState, isZoomImgLoaded, forceUpdateVal,
                   loadedImgEl, prevIsZoomed, dialogOpen, transitionRunning, tListeners,
                   timeouts, attached, naturalPending, closeEventPending, closedFrom>>
    /\ Quiet
    /\ UNCHANGED propChanges

\* Teardown: the cleanups of the effects run with the values of the last
\* render; the elements leave the document, so their events are gone, while
\* timers already queued still run and decodes resolve into nothing
Unmount ==
    /\ mounted
    /\ mounted' = FALSE
    /\ attached' = attached \ {ResizeL, ScrollL("window", onZoomChange),
                               ClickL(onZoomChange)}
    /\ tListeners' = <<>>
    /\ transitionRunning' = FALSE
    /\ dialogOpen' = FALSE
    /\ closeEventPending' = FALSE
    /\ naturalPending' = {}
    /\ zoomDecoding' = 0
    /\ lastCalls' = <<>>
    /\ closedFrom' = "NONE"
    /\ reported' = FALSE
    /\ scrollCalls' = 0
    /\ UNCHANGED <<config, imgSrc, props, modalState, isZoomImgLoaded, forceUpdateVal,
                   loadedImgEl, prevIsZoomed, timeouts, propChanges>>

Next ==
    \/ OwnerToggle
    \/ ChangeOnZoomChange
    \/ ChangeScrollableEl
    \/ ClickZoomBtn
    \/ ClickImg
    \/ ClickUnzoomBtn
    \/ ClickOverlay
    \/ \E key \in {"Escape", "Enter"} : KeyDown(key)
    \/ DialogCloseEvent
    \/ Scroll
    \/ Resize
    \/ TransitionEnd
    \/ Timeout
    \/ NaturalDecoded
    \/ Unmount

Spec == Init /\ [][Next]_vars

\* Liveness is checked for an img target (an svg target behaves as an img whose
\* natural asset has decoded; with no target nothing ever transitions)
InitLive == Init /\ imgEl = "img"

\* The event loop runs every queued timer, and a transition that is running ends
FairSpec ==
    InitLive /\ [][Next]_vars /\ WF_vars(TransitionEnd) /\ WF_vars(Timeout)

\* The same for any target, an absent one included
FairSpecAnyTarget ==
    Init /\ [][Next]_vars /\ WF_vars(TransitionEnd) /\ WF_vars(Timeout)

TypeOK ==
    /\ modalState \in ModalState
    /\ isZoomed \in BOOLEAN
    /\ prevIsZoomed = isZoomed
    /\ forceUpdateVal \in 0..MaxForce
    /\ onZoomChange \in 1..(MaxPropChanges + 1)
    /\ propChanges \in 0..MaxPropChanges
    /\ Len(tListeners) + Len(timeouts) <= MaxPending
    /\ zoomDecoding \in 0..MaxDecodes
    /\ imgSrc \in Sources \cup {"none"}
    /\ loadedImgEl \in Sources \cup {"none"}
    /\ naturalPending \subseteq Sources

----------------------------------------------------------------------------
\* Specifications with the asset loaders (replacement asset configured, the
\* target reloading its source)

InitAssets ==
    /\ imgEl = "img"
    /\ hasZoomImg = TRUE
    /\ scrollableEl = "window"
    /\ isZoomed = FALSE
    /\ onZoomChange = 1
    /\ mounted = TRUE
    /\ modalState = "UNLOADED"
    /\ isZoomImgLoaded = FALSE
    /\ forceUpdateVal = 0
    /\ loadedImgEl = "none"
    /\ prevIsZoomed = FALSE
    /\ dialogOpen = FALSE
    /\ transitionRunning = FALSE
    /\ tListeners = <<>>
    /\ timeouts = <<>>
    /\ attached = {ClickL(1)}
    /\ imgSrc = "A"
    /\ naturalPending = {"A"}
    /\ zoomDecoding = 0
    /\ closeEventPending = FALSE
    /\ lastCalls = <<>>
    /\ closedFrom = "NONE"
    /\ reported = FALSE
    /\ scrollCalls = 0
    /\ propChanges = 0

NextAssets ==
    \/ OwnerToggle
    \/ TransitionEnd
    \/ Timeout
    \/ NaturalDecoded
    \/ ImgLoad
    \/ SrcChange
    \/ ZoomDecoded
    \/ ZoomDecodeFailed

AssetSpec == InitAssets /\ [][NextAssets]_vars

----------------------------------------------------------------------------
\* Steps named in the properties

\* modalState changes from a to b
Edge(a, b) == modalState = a /\ modalState' = b

\* the edges of the lifecycle, with the two reversal edges
AllowedEdges ==
    {<<"UNLOADED", "LOADING">>, <<"LOADING", "LOADED">>, <<"LOADED", "UNLOADING">>,
     <<"UNLOADING", "UNLOADED">>, <<"LOADING", "UNLOADING">>, <<"UNLOADING", "LOADING">>}

ScrollOrResize(att) == {l \in att : l.type \in {"scroll", "resize"}}

\* the completion callbacks not yet run, oldest first: timers queued, then the
\* transitionend listeners registered
Pending == timeouts \o tListeners

Kinds(q) == [i \in 1..Len(q) |-> q[i].kind]

\* an event that asks to close: close button, overlay, Escape, scroll, the
\* dialog's close event
CloseEvent ==
    ClickUnzoomBtn \/ ClickOverlay \/ KeyDown("Escape") \/ Scroll \/ DialogCloseEvent

\* any event of the user interface
UIEvent ==
    \/ ClickZoomBtn \/ ClickImg \/ ClickUnzoomBtn \/ ClickOverlay
    \/ KeyDown("Escape") \/ KeyDown("Enter") \/ Scroll \/ Resize \/ DialogCloseEvent

----------------------------------------------------------------------------
\* C1: every change of modalState is one of Unloaded->Loading, Loading->Loaded,
\* Loaded->Unloading, Unloading->Unloaded, Loading->Unloading or
\* Unloading->Loading. Stated as the claim has it; the stale completion
\* callback of zoom() breaks it (Unloading->Loaded).
C1_OnlyLifecycleEdges ==
    [][modalState' # modalState => <<modalState, modalState'>> \in AllowedEdges]_vars

\* C2: once isZoomed went true and back to false while LOADING (the modal image
\* exists and its transition runs), the state reaches UNLOADED, unless the
\* component is torn down first.
C2_ReversalReachesUnloaded ==
    (mounted /\ modalState = "UNLOADING" /\ closedFrom = "LOADING" /\ transitionRunning)
        ~> (modalState = "UNLOADED" \/ ~mounted)

\* C2 witness: a reversal made while LOADING, the shrink transition running
C2_Witness ==
    /\ mounted /\ modalState = "UNLOADING" /\ closedFrom = "LOADING"
    /\ transitionRunning /\ ~isZoomed
    /\ \E i \in 1..Len(tListeners) : tListeners[i].kind = "unzoom"

\* C3: a scroll-triggered close calls onZoomChange(false) exactly once between
\* the scroll in LOADED and UNLOADED. Stated as the claim has it; the scroll
\* listener stays attached while UNLOADING and calls again.
C3_OneReportPerScrollClose == scrollCalls <= 1

\* C4: from LOADED, a click on the unzoom button and an Escape key press have
\* the same outcomes: the same next states and the same onZoomChange calls.
\* Stated as the claim has it; the click also bubbles to the dialog's onClick.
C4_EscapeSameAsCloseButton ==
    [][modalState = "LOADED" => (ClickUnzoomBtn <=> KeyDown("Escape"))]_vars

\* C5: with no target resolved, a click on the zoom button or a change of
\* isZoomed to true leaves modalState UNLOADED and calls no onZoomChange.
\* Stated as the claim has it; neither handleOpen nor zoom() looks at imgEl.
C5_AbsentTargetNoOp ==
    [][(imgEl = "none" /\ modalState = "UNLOADED"
          /\ (ClickZoomBtn \/ (OwnerToggle /\ isZoomed')))
       => (modalState' = "UNLOADED" /\ lastCalls' = <<>>)]_vars

\* C6: when Unloading->Unloaded completes, no scroll or resize listener
\* remains attached, whatever props changed during the session. Stated as the
\* claim has it; unzoom() removes what it captured, not what zoom() attached.
C6_NoListenerAfterSession ==
    [][Edge("UNLOADING", "UNLOADED") => ScrollOrResize(attached') = {}]_vars

\* C7: after teardown no scroll, resize or click listener is attached, and
\* none is attached later. Stated as the claim has it; the cleanup removes
\* the scroll listener from the window only, and queued timers still run.
C7_TeardownLeavesNoListener == ~mounted => attached = {}

\* C8, as the claim has it: every Loaded->Unloading transition, an external
\* toggle included, has been reported by onZoomChange(false) by the time the
\* shrink callback sets UNLOADED.
C8_EveryCloseReported ==
    [][(Edge("UNLOADING", "UNLOADED") /\ closedFrom = "LOADED") => reported]_vars

\* C8, amended: a Loaded->Unloading transition is either the owner's own
\* toggle, which the component does not report, or the owner's answer to an
\* onZoomChange(false) made in that very step by the close button, an overlay
\* click, Escape, a scroll or the dialog's close event; each of these events
\* calls onZoomChange(false), and does so before UNLOADED is set.
C8_CloseEventsReport ==
    [][/\ Edge("LOADED", "UNLOADING") =>
            \/ (OwnerToggle /\ lastCalls' = <<>>)
            \/ (CloseEvent /\ NFalse(lastCalls') > 0 /\ reported')
       /\ CloseEvent => (NFalse(lastCalls') > 0
                          /\ (modalState' = "UNLOADED" => modalState = "UNLOADED"))
       /\ OwnerToggle => lastCalls' = <<>>]_vars

\* C8 witness: a scroll in LOADED was accepted: UNLOADING, reported
C8_Witness ==
    /\ modalState = "UNLOADING" /\ closedFrom = "LOADED" /\ reported
    /\ scrollCalls = 1 /\ lastCalls = <<FALSE>>

\* C9: a resize while LOADED changes nothing but the forced-refresh counter,
\* which it increments: modalState and isZoomed stay, no onZoomChange is called.
C9_ResizeOnlyRefreshes ==
    [][(Resize /\ modalState = "LOADED") =>
          /\ forceUpdateVal' = forceUpdateVal + 1
          /\ lastCalls' = <<>>
          /\ UNCHANGED <<modalState, isZoomed, prevIsZoomed, dialogOpen, tListeners,
                         timeouts, attached, isZoomImgLoaded, loadedImgEl,
                         scrollableEl, onZoomChange, mounted>>]_vars

\* C9 witness: LOADED with the counter raised and no close ever proposed,
\* which only a resize does
C9_Witness ==
    /\ modalState = "LOADED" /\ isZoomed /\ dialogOpen
    /\ forceUpdateVal = MaxForce /\ ~reported /\ lastCalls = <<>>
    /\ ResizeL \in attached

\* C10: no UI event writes modalState: it changes only in a step that changes
\* isZoomed or in a deferred transition-end callback, and an event whose
\* onZoomChange call the owner ignores leaves modalState as it was.
C10_OnlyProposes ==
    [][/\ modalState' # modalState => (isZoomed' # isZoomed \/ Timeout)
       /\ (UIEvent /\ isZoomed' = isZoomed) => modalState' = modalState
       /\ (ClickZoomBtn \/ ClickImg) => lastCalls' = <<TRUE>>]_vars

\* C10 witness: a close was proposed in LOADED and ignored by the owner
C10_Witness ==
    /\ modalState = "LOADED" /\ isZoomed /\ lastCalls = <<FALSE>> /\ reported
    /\ tListeners = <<>> /\ timeouts = <<>>

\* C11: the output surface is a function of modalState alone: the content is
\* visible exactly in UNLOADED, the overlay is visible exactly in LOADING and
\* LOADED, and the two are never visible together.
C11_SurfaceFromState ==
    /\ (StyleContent(modalState) = "visible") <=> (modalState = "UNLOADED")
    /\ (DataOverlayState(modalState) = "visible") <=> (modalState \in {"LOADING", "LOADED"})
    /\ ~(StyleContent(modalState) = "visible" /\ DataOverlayState(modalState) = "visible")

\* C11 witness: closing, the dialog still shown: content and overlay both hidden
C11_Witness ==
    /\ modalState = "UNLOADING" /\ dialogOpen
    /\ StyleContent(modalState) = "hidden" /\ DataOverlayState(modalState) = "hidden"

\* C12: LOADING always leads to LOADED unless isZoomed goes back to false, and
\* UNLOADING always leads to UNLOADED unless isZoomed goes back to true,
\* whatever the target. Stated as the claim has it; with no modal image no
\* transitionend listener is registered and the state never resolves.
C12_TransientResolves ==
    /\ (mounted /\ modalState = "LOADING")
          ~> (modalState = "LOADED" \/ ~isZoomed \/ ~mounted)
    /\ (mounted /\ modalState = "UNLOADING")
          ~> (modalState = "UNLOADED" \/ isZoomed \/ ~mounted)

\* C13: a reversal made while LOADING leaves the completion callback of zoom()
\* pending; when it runs it sets LOADED and attaches the scroll and resize
\* listeners although isZoomed is false, and the callback of unzoom() then
\* sets UNLOADED and removes them: LOADING, UNLOADING, LOADED, UNLOADED.
C13_StaleZoomCallbackSetsLoaded ==
    [][/\ (HasRef /\ Edge("LOADING", "UNLOADING")) =>
            /\ Len(Pending') = Len(Pending) + 1
            /\ SubSeq(Pending', 1, Len(Pending)) = Pending
            /\ Pending'[Len(Pending')].kind = "unzoom"
       /\ (/\ mounted /\ modalState = "UNLOADING" /\ closedFrom = "LOADING"
           /\ Kinds(Pending) = <<"zoom", "unzoom">> /\ Timeout) =>
            /\ modalState' = "LOADED" /\ ~isZoomed'
            /\ {ScrollL(Head(timeouts).el, Head(timeouts).hs), ResizeL} \subseteq attached'
            /\ Kinds(Pending') = <<"unzoom">>
       /\ (/\ mounted /\ modalState = "LOADED" /\ ~isZoomed
           /\ Kinds(Pending) = <<"unzoom">> /\ Timeout) =>
            /\ modalState' = "UNLOADED"
            /\ propChanges = 0 => ScrollOrResize(attached') = {}]_vars

\* C13 witness: LOADED although isZoomed is false, the listeners attached, the
\* callback of unzoom() still to run
C13_Witness ==
    /\ mounted /\ modalState = "LOADED" /\ ~isZoomed
    /\ Kinds(Pending) = <<"unzoom">>
    /\ ResizeL \in attached

\* C14: the readiness flag of the replacement asset is reset when unzoom
\* completes: the step that sets UNLOADED leaves isZoomImgLoaded false. Stated
\* as the claim has it; nothing ever sets the flag back to false.
C14_ResetWhenUnzoomCompletes ==
    [][Edge("UNLOADING", "UNLOADED") => ~isZoomImgLoaded']_vars

\* C15: with no natural-asset decode in flight, loadedImgEl is the image of
\* the target's latest source. Stated as the claim has it; a decode of a
\* superseded source that resolves last overwrites the newer result.
C15_LatestSourceWins ==
    (mounted /\ HasImgSrc /\ naturalPending = {}) => loadedImgEl = imgSrc

\* C16: when the decode of the replacement asset fails, the readiness flag is
\* false and stays so, and the replacement asset is not displayed. Stated as
\* the claim has it; the flag keeps the value an earlier decode gave it.
C16_FailedDecodeLeavesNotReady ==
    [][ZoomDecodeFailed => ~isZoomImgLoaded']_vars

\* C17: a scroll or resize listener is attached only while modalState is
\* LOADED. Stated as the claim has it; the listeners stay attached through
\* UNLOADING until the completion callback of unzoom() removes them.
C17_ListenersOnlyWhileLoaded ==
    ScrollOrResize(attached) # {} => modalState = "LOADED"

\* C18: the replacement asset's attributes are applied to the modal image only
\* in LOADED with the readiness flag true, never in UNLOADED, LOADING or
\* UNLOADING.
C18_ReplacementOnlyWhenLoaded ==
    /\ ZoomImgProps(isZoomImgLoaded, modalState)
          => (modalState = "LOADED" /\ isZoomImgLoaded)
    /\ modalState \in {"UNLOADED", "LOADING", "UNLOADING"}
          => ~ZoomImgProps(isZoomImgLoaded, modalState)

\* C18 witness: zoomed with the replacement asset decoded: its attributes are
\* applied to the modal image
C18_Witness ==
    /\ ZoomImgProps(isZoomImgLoaded, modalState) /\ hasZoomImg /\ isZoomed /\ dialogOpen

\* C19: while mounted, the dialog is shown whenever modalState is LOADING,
\* LOADED or UNLOADING. Stated as the claim has it; a completion callback of
\* unzoom() left from an earlier toggle closes the dialog of a later zoom.
C19_DialogOpenUnlessUnloaded ==
    (mounted /\ modalState # "UNLOADED") => dialogOpen

\* C20: with a target present and no prop other than isZoomed changed, once
\* every transitionend listener and deferred callback has run, modalState is
\* LOADED if isZoomed and UNLOADED if not, and the scroll and resize listeners
\* are attached exactly when it is LOADED.
C20_SettledAgrees ==
    (mounted /\ imgEl # "none" /\ propChanges = 0 /\ Pending = <<>>) =>
        /\ modalState = (IF isZoomed THEN "LOADED" ELSE "UNLOADED")
        /\ ScrollOrResize(attached) =
              (IF isZoomed THEN {ScrollL(scrollableEl, onZoomChange), ResizeL} ELSE {})

\* C20 witness: settled in LOADED after toggles made during the transitions:
\* a callback of unzoom() ran before the last callback of zoom()
C20_Witness ==
    /\ mounted /\ imgEl # "none" /\ propChanges = 0 /\ Pending = <<>>
    /\ modalState = "LOADED" /\ isZoomed /\ ~dialogOpen

====
